---- MODULE Spec2Model ----
(***************************************************************************)
(* CloudDrop backend: the content-addressed file store of                  *)
(* InternetFileService (uploads directory + counting bloom filter) on top  *)
(* of the Redis key-value store reached through RedisClient.               *)
(*                                                                         *)
(* Every request handler is an async function.  A handler runs without     *)
(* interruption from one await to the next, so each action below is one    *)
(* such run-to-completion segment, or the moment a file-system operation   *)
(* issued by a handler takes effect.  Redis commands travel over a single  *)
(* connection and are served in the order they were issued, so a command   *)
(* takes effect in the segment that issues it.                             *)
(***************************************************************************)
EXTENDS Integers, Sequences, FiniteSets, Bags, TLC

(***************************************************************************)
(* Bounds                                                                  *)
(***************************************************************************)
MaxFiles == 2          \* uploadFile calls (file ids drawn from randomUUID)
MaxCalls == 2          \* deleteFile, deleteAllFiles and download calls
MaxExpired == 1        \* keys whose time to live runs out
NumContents == 2       \* distinct byte payloads

MaxInFlight == 2       \* request handlers in flight together
MaxCallers == 2        \* operations that call RedisClient.connect together
MaxConnectCalls == 3   \* RedisClient.connect calls
MaxLost == 1           \* times an open connection is lost
MaxRetries == 8        \* retry counts the reconnect strategy is asked about
Contents == 1..NumContents
FileIds == 1..MaxFiles
NoFile == NumContents + 1     \* req.file absent
\* req.file.buffer.length: payload 1 is the zero-length buffer, the others
\* hold bytes
ByteLength(file) == file - 1
UnknownId == MaxFiles + 1     \* a fileId no upload ever returned

(***************************************************************************)
(* Strings are sequences of characters; null is a value of its own.        *)
(***************************************************************************)
NULL == <<"<null>">>
Str_null == <<"n", "u", "l", "l">>
Str_empty == <<>>

\* String(v) as JavaScript applies it to a search-string argument
JsString(v) == IF v = NULL THEN Str_null ELSE v

\* String.prototype.startsWith
StartsWith(s, search) ==
    LET p == JsString(search)
    IN  Len(p) <= Len(s) /\ SubSeq(s, 1, Len(p)) = p

\* String.prototype.includes
Includes(s, search) ==
    LET p == JsString(search)
    IN  \E i \in 0..(Len(s) - Len(p)) : SubSeq(s, i + 1, i + Len(p)) = p

\* the original names a client may declare (req.file.originalname)
Name_a_t == <<"a", ".", "t">>
Name_a_null == <<"a", "%", "2", "E", "n", "u", "l", "l">>
Name_bad == <<"%", "t">>
OriginalNames == {Name_a_t, Name_a_null, Name_bad}

HexDigits == {"0", "1", "2", "3", "4", "5", "6", "7", "8", "9",
              "a", "b", "c", "d", "e", "f", "A", "B", "C", "D", "E", "F"}

\* the characters the percent escapes used here stand for
Unescape(h1, h2) ==
    IF <<h1, h2>> = <<"2", "E">> THEN "."
    ELSE IF <<h1, h2>> = <<"2", "5">> THEN "%"
    ELSE "?"

\* a '%' that is not followed by two hex digits makes decodeURIComponent throw
RECURSIVE Malformed(_)
Malformed(s) ==
    IF s = <<>> THEN FALSE
    ELSE IF Head(s) = "%"
         THEN IF Len(s) >= 3 /\ s[2] \in HexDigits /\ s[3] \in HexDigits
              THEN Malformed(SubSeq(s, 4, Len(s)))
              ELSE TRUE
         ELSE Malformed(Tail(s))

\* decodeURIComponent on a well-formed string
RECURSIVE DecodeURIComponent(_)
DecodeURIComponent(s) ==
    IF s = <<>> THEN <<>>
    ELSE IF Head(s) = "%"
         THEN <<Unescape(s[2], s[3])>> \o DecodeURIComponent(SubSeq(s, 4, Len(s)))
         ELSE <<Head(s)>> \o DecodeURIComponent(Tail(s))

\* position of the last '.' of s, 0 when there is none
RECURSIVE LastDot(_)
LastDot(s) ==
    IF s = <<>> THEN 0
    ELSE IF s[Len(s)] = "." THEN Len(s)
    ELSE LastDot(SubSeq(s, 1, Len(s) - 1))

\* path.extname: from the last '.' on, '' without a dot or for a leading dot
ExtName(filename) ==
    LET d == LastDot(filename)
    IN  IF d <= 1 THEN Str_empty ELSE SubSeq(filename, d, Len(filename))

\* sha256 hex digest: one fixed hex string per payload, no collisions
_calculateFileHash(file) == <<"c", <<"1", "2", "3", "4", "5", "6", "7", "8", "9">>[file]>>

_generateUniqueFilename(filename, fileHash) == fileHash \o ExtName(filename)

(***************************************************************************)
(* The counting bloom filter (package bloom-filters): one counter per      *)
(* cell, NbHashes cell indexes per element.                                *)
(***************************************************************************)
NumCells == 2
NbHashes == 2

\* the i-th cell index of an element (getIndexes); two hash functions may
\* hit the same cell
Index(element, i) == ((element * i) % NumCells) + 1

Hits(element, cell) == Cardinality({i \in 1..NbHashes : Index(element, i) = cell})

\* CountingBloomFilter.create(size, errorRate): all counters zero
CreateFilter == [cell \in 1..NumCells |-> 0]

\* CountingBloomFilter.has: every cell of the element is set
FilterHas(filter, element) == \A i \in 1..NbHashes : filter[Index(element, i)] > 0

\* CountingBloomFilter.add: one increment per hash function
FilterAdd(filter, element) ==
    [cell \in 1..NumCells |-> filter[cell] + Hits(element, cell)]

\* CountingBloomFilter.remove: one decrement per hash function, unguarded
FilterRemove(filter, element) ==
    [cell \in 1..NumCells |-> filter[cell] - Hits(element, cell)]

\* saveAsJSON / fromJSON
SaveAsJSON(filter) ==
    [type |-> "CountingBloomFilter", _size |-> NumCells, _nbHashes |-> NbHashes,
     _filter |-> filter]
FromJSON(json) == [cell \in 1..json._size |-> json._filter[cell]]

(***************************************************************************)
(* Redis: key -> [value, ttl].  ttl is the key's time to live in seconds,  *)
(* NoTtl for a key that never expires.                                     *)
(***************************************************************************)
NoTtl == 0 - 1
ThirtyDays == 3600 * 24 * 30

HashKey(fileId) == <<"file", fileId, "hash">>
NameKey(fileId) == <<"file", fileId, "filename">>
BloomKey == <<"bloomFilter", 0, "json">>

\* RedisClient.set
RedisSet(r, key, value) ==
    [k \in DOMAIN r \cup {key} |-> IF k = key THEN [value |-> value, ttl |-> NoTtl] ELSE r[k]]

\* RedisClient.setExpire with a number of seconds (second = 0 asks for
\* expiry at 03:00 today, which is already due or due within the day)
RedisSetExpire(r, key, second) ==
    IF key \notin DOMAIN r THEN r
    ELSE [r EXCEPT ![key].ttl = IF second = 0 THEN 1 ELSE second]

\* RedisClient.get: the value, or null for a missing key
RedisGet(r, key) == IF key \in DOMAIN r THEN r[key].value ELSE NULL

\* client.del of a set of keys
RedisDel(r, keys) == [k \in DOMAIN r \ keys |-> r[k]]

\* InternetFileService._saveFileInfo: four commands queued back to back
_saveFileInfo(r, fileId, fileHash, originalFilename) ==
    LET r1 == RedisSet(r, HashKey(fileId), fileHash)
        r2 == RedisSetExpire(r1, HashKey(fileId), ThirtyDays)
        r3 == RedisSet(r2, NameKey(fileId), originalFilename)
    IN  RedisSetExpire(r3, NameKey(fileId), ThirtyDays)

\* RedisClient.saveBloomFilter / loadBloomFilter
\* (what JSON.parse yields is an object; JsonNull is the null among them)
JsonNull == [type |-> "null"]
SaveBloomFilter(r, filter) == RedisSet(r, BloomKey, SaveAsJSON(filter))
LoadBloomFilter(r) == IF BloomKey \in DOMAIN r THEN r[BloomKey].value ELSE JsonNull

(***************************************************************************)
(* State                                                                   *)
(***************************************************************************)
VARIABLES
    redis,        \* the Redis keyspace
    uploads,      \* the uploads directory: blob name -> bytes
    bloomFilter,  \* this.bloomFilter: [defined, cells]
    loader,       \* the initFilter call started by the constructor
    tasks,        \* the request handlers in flight: a bag of handler records
    done,         \* the handler that settled in the last step, if one did
    uuidCount,    \* randomUUID draws so far
    s3Objects,    \* the objects put to the bucket
    issued,       \* history: the uploads that returned, [fileId, file, filename, exist]
    added,        \* history: payloads added to this.bloomFilter and not removed since
    deleteCalled, \* history: deleteFile or deleteAllFiles has been called
    calls,        \* deleteFile, deleteAllFiles and download calls so far
    expired,      \* keys expired so far
    queue,        \* the commands sent to Redis whose replies are still to come
    client,       \* this.client of RedisClient: the connection of the redis package
    callers       \* the RedisClient.connect calls of concurrent operations

vars == <<redis, uploads, bloomFilter, loader, tasks, done, uuidCount, s3Objects,
          issued, added, deleteCalled, calls, expired, queue, client, callers>>

Undefined == [defined |-> FALSE, cells |-> CreateFilter]
Defined(filter) == [defined |-> TRUE, cells |-> filter]

Pending == [status |-> "pending"]
Returned(value) == [status |-> "returned", value |-> value]
Threw(message) == [status |-> "threw", error |-> message]
JsUndefined == [undefined |-> TRUE]

IdleTask ==
    [op |-> "none", pc |-> "idle", fileId |-> UnknownId, file |-> NoFile,
     filename |-> NULL, fileHash |-> NULL, files |-> {}, todo |-> {},
     matchedFile |-> NULL, fileBuffer |-> NoFile, way |-> "", type |-> "", id |-> "",
     keys |-> {}, exist |-> FALSE, puts |-> 0, alone |-> TRUE, outcome |-> Pending]

InFlight == BagToSet(tasks)
One(r) == SetToBag({r})

\* a new request can be taken on
Room == BagCardinality(tasks) < MaxInFlight

\* a request that starts while nothing else runs, and is not overtaken, is alone
Quiet == loader.pc = "loaded" /\ tasks = EmptyBag

RECURSIVE Copies(_, _, _)
Copies(bag, rs, x) ==
    IF rs = {} THEN 0
    ELSE LET r == CHOOSE r \in rs : TRUE
         IN  (IF [r EXCEPT !.alone = FALSE] = x THEN bag[r] ELSE 0)
             + Copies(bag, rs \ {r}, x)

\* the handlers of bag, each no longer alone
Overtaken(bag) ==
    [x \in {[r EXCEPT !.alone = FALSE] : r \in BagToSet(bag)} |->
        Copies(bag, BagToSet(bag), x)]

\* a request arrives and its handler runs to its first await
Begin(rec) == Overtaken(tasks) (+) One(rec)

\* handler r runs to its next await and is then rec
Step(r, rec) == Overtaken(tasks (-) One(r)) (+) One(rec)

\* handler r settles
Leave(r) == Overtaken(tasks (-) One(r))

\* the handler's promise settles: its locals are gone, its outcome stays
Settle(rec, outcome) ==
    [rec EXCEPT !.pc = "done", !.outcome = outcome, !.files = {}, !.todo = {},
                !.keys = {}, !.fileBuffer = NoFile]

\* this.client as createClient leaves it: the socket closed, nothing pending
ClosedClient ==
    [isOpen |-> FALSE, isReady |-> FALSE, phase |-> "closed", retries |-> 0, wait |-> 0,
     connects |-> 0, asked |-> 0, lost |-> 0, error |-> ""]

Callers == 1..MaxCallers
IdleCaller == [pc |-> "idle", error |-> ""]

Init ==
    /\ redis \in {<<>>, SaveBloomFilter(<<>>, CreateFilter)}
    /\ uploads = <<>>
    /\ bloomFilter = Undefined
    /\ loader = [pc |-> "connecting", parseData |-> JsonNull, filter |-> CreateFilter]
    /\ tasks = EmptyBag
    /\ done = IdleTask
    /\ uuidCount = 0
    /\ s3Objects = {}
    /\ issued = {}
    /\ added = {}
    /\ deleteCalled = FALSE
    /\ calls = 0
    /\ expired = 0
    /\ queue = <<>>
    /\ client = ClosedClient
    /\ callers = [c \in Callers |-> IdleCaller]

(***************************************************************************)
(* constructor -> initFilter -> _loadFilter                                *)
(***************************************************************************)
\* redisClient.connect() resolves and loadBloomFilter is issued
LoadFilterRead ==
    /\ loader.pc = "connecting"
    /\ loader' = [loader EXCEPT !.pc = "reading", !.parseData = LoadBloomFilter(redis)]
    /\ tasks' = Overtaken(tasks)
    /\ done' = IdleTask
    /\ UNCHANGED <<queue, redis, uploads, bloomFilter, uuidCount, s3Objects, issued, added,
                   deleteCalled, calls, expired, client, callers>>

\* the reply: a stored filter is parsed and becomes this.bloomFilter, a
\* missing one is created and its save is issued
LoadFilterParsed ==
    /\ loader.pc = "reading"
    /\ IF loader.parseData = JsonNull
       THEN /\ loader' = [loader EXCEPT !.pc = "saving", !.filter = CreateFilter]
            /\ redis' = SaveBloomFilter(redis, CreateFilter)
            /\ UNCHANGED <<bloomFilter, added>>
       ELSE /\ loader' = [loader EXCEPT !.pc = "loaded"]
            /\ bloomFilter' = Defined(FromJSON(loader.parseData))
            /\ added' = {}
            /\ redis' = redis
    /\ tasks' = Overtaken(tasks)
    /\ done' = IdleTask
    /\ UNCHANGED <<queue, uploads, uuidCount, s3Objects, issued, deleteCalled, calls, expired,
                   client, callers>>

\* the save is acknowledged: _loadFilter returns the filter it created and
\* initFilter assigns it
LoadFilterAssign ==
    /\ loader.pc = "saving"
    /\ bloomFilter' = Defined(loader.filter)
    /\ loader' = [loader EXCEPT !.pc = "loaded"]
    /\ added' = {}
    /\ tasks' = Overtaken(tasks)
    /\ done' = IdleTask
    /\ UNCHANGED <<queue, redis, uploads, uuidCount, s3Objects, issued, deleteCalled, calls,
                   expired, client, callers>>

(***************************************************************************)
(* How a handler moves                                                     *)
(***************************************************************************)
\* a request arrives and its handler suspends at its first await as rec
Arrive(rec) == Room /\ tasks' = Begin(rec) /\ done' = IdleTask

\* a request arrives and its handler settles without suspending
ArriveSettle(rec, outcome) ==
    Room /\ tasks' = Overtaken(tasks) /\ done' = Settle(rec, outcome)

\* handler r resumes and suspends again as rec
Continue(r, rec) == tasks' = Step(r, rec) /\ done' = IdleTask

\* handler r resumes and settles
Finish(r, rec, outcome) == tasks' = Leave(r) /\ done' = Settle(rec, outcome)

(***************************************************************************)
(* uploadFile                                                              *)
(***************************************************************************)
\* a result that carries a flag as well, to tell from the code's
UploadResultWithFlag(fileId, fileName) ==
    [fileId |-> fileId, fileName |-> fileName, alreadyExisted |-> FALSE]

UploadResult(fileId, fileName) == [fileId |-> fileId, fileName |-> fileName]

Issue(fileId, file, filename, exist) ==
    [fileId |-> fileId, file |-> file, filename |-> filename, exist |-> exist]

\* up to the first await: validation, randomUUID, the FileRecord, the dedup
\* check; a payload the filter reports present returns at once
UploadStart(file, originalname) ==
    /\ uuidCount < MaxFiles
    /\ LET fileId == uuidCount + 1
           originalFilename == DecodeURIComponent(originalname)
           fileHash == _calculateFileHash(file)
           rec == [IdleTask EXCEPT !.op = "upload", !.pc = "writeFile", !.file = file,
                                   !.alone = Quiet]
           rec2 == [rec EXCEPT !.fileId = fileId, !.filename = originalFilename,
                               !.fileHash = fileHash]
       IN  IF file = NoFile
           THEN /\ ArriveSettle(rec, Threw("Error: No file was uploaded."))
                /\ UNCHANGED <<redis, uuidCount, issued>>
           ELSE IF Malformed(originalname)
           THEN /\ ArriveSettle(rec, Threw("URIError: URI malformed"))
                /\ UNCHANGED <<redis, uuidCount, issued>>
           ELSE /\ redis' = _saveFileInfo(redis, fileId, fileHash, originalFilename)
                /\ uuidCount' = fileId
                /\ IF ~bloomFilter.defined
                   THEN /\ ArriveSettle(rec2, Threw("TypeError: bloomFilter is undefined"))
                        /\ issued' = issued
                   ELSE IF FilterHas(bloomFilter.cells, file)
                   THEN /\ ArriveSettle([rec2 EXCEPT !.exist = TRUE],
                                        Returned(UploadResult(fileId, originalFilename)))
                        /\ issued' = issued \cup {Issue(fileId, file, originalFilename, TRUE)}
                   ELSE /\ Arrive(rec2)
                        /\ issued' = issued
    /\ UNCHANGED <<queue, uploads, bloomFilter, loader, s3Objects, added, deleteCalled, calls,
                   expired, client, callers>>

\* fs.promises.writeFile(filePath, fileBuffer) takes effect
WriteFile(dir, fullFilename, fileBuffer) ==
    [f \in DOMAIN dir \cup {fullFilename} |-> IF f = fullFilename THEN fileBuffer ELSE dir[f]]

UploadWriteFile(r) ==
    /\ r.op = "upload" /\ r.pc = "writeFile"
    /\ uploads' = WriteFile(uploads, _generateUniqueFilename(r.filename, r.fileHash), r.file)
    /\ Continue(r, [r EXCEPT !.pc = "written"])
    /\ UNCHANGED <<queue, redis, bloomFilter, loader, uuidCount, s3Objects, issued, added,
                   deleteCalled, calls, expired, client, callers>>

\* after the write: add to the filter, connect (already open), issue the
\* save of the filter; its acknowledgement changes nothing, so the return
\* is taken here
UploadAdd(r) ==
    /\ r.op = "upload" /\ r.pc = "written"
    /\ IF ~bloomFilter.defined
       THEN /\ Finish(r, r, Threw("TypeError: bloomFilter is undefined"))
            /\ UNCHANGED <<bloomFilter, redis, added, issued>>
       ELSE LET filter == FilterAdd(bloomFilter.cells, r.file)
            IN  /\ bloomFilter' = Defined(filter)
                /\ added' = added \cup {r.file}
                /\ redis' = SaveBloomFilter(redis, filter)
                /\ Finish(r, r, Returned(UploadResult(r.fileId, r.filename)))
                /\ issued' = issued \cup {Issue(r.fileId, r.file, r.filename, FALSE)}
    /\ UNCHANGED <<queue, uploads, loader, uuidCount, s3Objects, deleteCalled, calls, expired,
                   client, callers>>

(***************************************************************************)
(* uploadFile, command by command.  The actions above fold the reply of a  *)
(* Redis command into the segment that sends it, which is what a handler   *)
(* sees as long as every command succeeds.  The actions below keep the     *)
(* commands in flight: a command is sent, the server executes it when its  *)
(* turn comes, and its reply is a success or an error.                     *)
(***************************************************************************)
Command(name, key, value, fileId, awaited) ==
    [name |-> name, key |-> key, value |-> value, fileId |-> fileId, awaited |-> awaited]

\* InternetFileService._saveFileInfo: each redisClient.set / setExpire call
\* has sent its command when _saveFileInfo returns; none of the four
\* promises is awaited or returned
SaveFileInfoCommands(fileId, fileHash, originalFilename) ==
    << Command("set", HashKey(fileId), fileHash, fileId, FALSE),
       Command("expire", HashKey(fileId), ThirtyDays, fileId, FALSE),
       Command("set", NameKey(fileId), originalFilename, fileId, FALSE),
       Command("expire", NameKey(fileId), ThirtyDays, fileId, FALSE) >>

\* await redisClient.saveBloomFilter(this.bloomFilter)
SaveBloomFilterCommand(filter, fileId) ==
    Command("set", BloomKey, SaveAsJSON(filter), fileId, TRUE)

\* the server executes a command
Execute(r, c) ==
    IF c.name = "set" THEN RedisSet(r, c.key, c.value)
    ELSE RedisSetExpire(r, c.key, c.value)

\* uploadFile up to its first await, the four commands of _saveFileInfo sent
UploadSend(file, originalname) ==
    /\ uuidCount < MaxFiles
    /\ LET fileId == uuidCount + 1
           originalFilename == DecodeURIComponent(originalname)
           fileHash == _calculateFileHash(file)
           rec == [IdleTask EXCEPT !.op = "upload", !.pc = "writeFile", !.file = file,
                                   !.alone = Quiet]
           rec2 == [rec EXCEPT !.fileId = fileId, !.filename = originalFilename,
                               !.fileHash = fileHash]
       IN  IF file = NoFile
           THEN /\ ArriveSettle(rec, Threw("Error: No file was uploaded."))
                /\ UNCHANGED <<queue, uuidCount, issued>>
           ELSE IF Malformed(originalname)
           THEN /\ ArriveSettle(rec, Threw("URIError: URI malformed"))
                /\ UNCHANGED <<queue, uuidCount, issued>>
           ELSE /\ queue' = queue \o SaveFileInfoCommands(fileId, fileHash, originalFilename)
                /\ uuidCount' = fileId
                /\ IF ~bloomFilter.defined
                   THEN /\ ArriveSettle(rec2, Threw("TypeError: bloomFilter is undefined"))
                        /\ issued' = issued
                   ELSE IF FilterHas(bloomFilter.cells, file)
                   THEN /\ ArriveSettle([rec2 EXCEPT !.exist = TRUE],
                                        Returned(UploadResult(fileId, originalFilename)))
                        /\ issued' = issued \cup {Issue(fileId, file, originalFilename, TRUE)}
                   ELSE /\ Arrive(rec2)
                        /\ issued' = issued
    /\ UNCHANGED <<redis, uploads, bloomFilter, loader, s3Objects, added, deleteCalled, calls,
                   expired, client, callers>>

\* after the write: add to the filter, send the save of the filter, await
UploadAddSend(r) ==
    /\ r.op = "upload" /\ r.pc = "written"
    /\ IF ~bloomFilter.defined
       THEN /\ Finish(r, r, Threw("TypeError: bloomFilter is undefined"))
            /\ UNCHANGED <<bloomFilter, queue, added>>
       ELSE LET filter == FilterAdd(bloomFilter.cells, r.file)
            IN  /\ bloomFilter' = Defined(filter)
                /\ added' = added \cup {r.file}
                /\ queue' = Append(queue, SaveBloomFilterCommand(filter, r.fileId))
                /\ Continue(r, [r EXCEPT !.pc = "saveBloomFilter"])
    /\ UNCHANGED <<redis, uploads, loader, uuidCount, s3Objects, issued, deleteCalled, calls,
                   expired, client, callers>>

\* the handler that awaits command c
Awaiting(r, c) ==
    r.op = "upload" /\ r.pc = "saveBloomFilter" /\ r.fileId = c.fileId

\* the oldest command is executed and its reply is a success: an awaited
\* one resumes its handler, which returns
ReplyOk ==
    /\ queue # <<>>
    /\ LET c == Head(queue)
       IN  /\ redis' = Execute(redis, c)
           /\ queue' = Tail(queue)
           /\ IF c.awaited
              THEN \E r \in InFlight :
                      /\ Awaiting(r, c)
                      /\ Finish(r, r, Returned(UploadResult(r.fileId, r.filename)))
                      /\ issued' = issued \cup {Issue(r.fileId, r.file, r.filename, FALSE)}
              ELSE /\ tasks' = Overtaken(tasks)
                   /\ done' = IdleTask
                   /\ issued' = issued
    /\ UNCHANGED <<uploads, bloomFilter, loader, uuidCount, s3Objects, added, deleteCalled,
                   calls, expired, client, callers>>

\* the reply of the oldest command is an error and the store is as before:
\* RedisClient.set / setExpire log it and rethrow (redisClient.js:52-75).
\* An awaited command makes its handler throw; the promise of any other is
\* rejected with nobody to handle it, and `done' shows that call
ReplyError ==
    /\ queue # <<>>
    /\ LET c == Head(queue)
       IN  /\ queue' = Tail(queue)
           /\ IF c.awaited
              THEN \E r \in InFlight :
                      /\ Awaiting(r, c)
                      /\ Finish(r, r, Threw("Error: " \o c.name))
              ELSE /\ tasks' = Overtaken(tasks)
                   /\ done' = Settle([IdleTask EXCEPT !.op = c.name, !.fileId = c.fileId],
                                     Threw(c.name))
    /\ UNCHANGED <<redis, uploads, bloomFilter, loader, uuidCount, s3Objects, issued, added,
                   deleteCalled, calls, expired, client, callers>>

(***************************************************************************)
(* deleteFile                                                              *)
(***************************************************************************)
\* key patterns of SCAN MATCH: '*' stands for any file id
Glob(pattern, key) ==
    /\ key[1] = pattern[1]
    /\ pattern[2] = "*"
    /\ key[3] = pattern[3]

Pattern_hash == <<"file", "*", "hash">>
Pattern_filename == <<"file", "*", "filename">>

\* the keyspace scan SCAN cursor MATCH pattern of deleteFileInfoWithSameHash:
\* the keyspace is small, so one call lists every matching key
Scan(r, pattern) == {k \in DOMAIN r : Glob(pattern, k)}

\* client.scan(cursor, 'MATCH', pattern, 'COUNT', '100') of deleteByPattern.
\* The client is the one whose commands are sAdd, sMembers and expireAt and
\* whose scan reply is the object {cursor, keys}: its scan takes
\* (cursor, options) and reads options.MATCH and options.COUNT.  Here the
\* options are the string 'MATCH', which has neither property, and the
\* arguments after it are not read: the command sent is SCAN cursor, and
\* every key of the small keyspace is listed, whatever the pattern
ClientScan(r, pattern) == DOMAIN r

\* the file ids a caller can name: those an upload returned, or some other
KnownIds == {i.fileId : i \in issued} \cup {UnknownId}

\* RedisClient.deleteFileInfoByFileId: both entries of the file id
DeleteFileInfoByFileId(r, fileId) == RedisDel(r, {HashKey(fileId), NameKey(fileId)})

\* the file ids whose stored hash is fileHash, among the scanned hash keys
SameHash(r, keys, fileHash) ==
    {k[2] : k \in {key \in keys \cap DOMAIN r : r[key].value = fileHash}}

\* RedisClient.deleteFileInfoWithSameHash: both entries of every such id
DeleteFileInfoWithSameHash(r, keys, fileHash) ==
    RedisDel(r, {HashKey(f) : f \in SameHash(r, keys, fileHash)}
                \cup {NameKey(f) : f \in SameHash(r, keys, fileHash)})

\* files.find((file) => file.includes(fileHash))
DeleteMatches(files, fileHash) == {f \in files : Includes(f, fileHash)}

\* the call, up to the moment fs.promises.readdir has read the directory
DeleteReaddir(fileId) ==
    /\ fileId \in KnownIds
    /\ calls < MaxCalls
    /\ calls' = calls + 1
    /\ Arrive([IdleTask EXCEPT !.op = "delete", !.pc = "readdirDone", !.fileId = fileId,
                               !.files = DOMAIN uploads, !.alone = Quiet])
    /\ deleteCalled' = TRUE
    /\ UNCHANGED <<queue, redis, uploads, bloomFilter, loader, uuidCount, s3Objects, issued,
                   added, expired, client, callers>>

\* connect (already open), get file:{fileId}:hash, and on its reply find
\* the blob: the first match in the order readdir listed the directory,
\* which the file system chooses; readFile is issued
DeleteFind(r) ==
    /\ r.op = "delete" /\ r.pc = "readdirDone"
    /\ LET fileHash == RedisGet(redis, HashKey(r.fileId))
           matches == DeleteMatches(r.files, fileHash)
           rec == [r EXCEPT !.fileHash = fileHash]
       IN  IF matches = {}
           THEN Finish(r, rec, Threw("File not found"))
           ELSE \E matchedFile \in matches :
                   Continue(r, [rec EXCEPT !.pc = "readFile", !.matchedFile = matchedFile])
    /\ UNCHANGED <<queue, redis, uploads, bloomFilter, loader, uuidCount, s3Objects, issued,
                   added, deleteCalled, calls, expired, client, callers>>

\* fs.promises.readFile reads the blob, or fails when it is gone
DeleteReadFile(r) ==
    /\ r.op = "delete" /\ r.pc = "readFile"
    /\ IF r.matchedFile \in DOMAIN uploads
       THEN Continue(r, [r EXCEPT !.pc = "readFileDone", !.fileBuffer = uploads[r.matchedFile]])
       ELSE Finish(r, r, Threw("ENOENT"))
    /\ UNCHANGED <<queue, redis, uploads, bloomFilter, loader, uuidCount, s3Objects, issued,
                   added, deleteCalled, calls, expired, client, callers>>

\* this.bloomFilter.remove(fileBuffer), then fs.promises.unlink is issued
DeleteRemove(r) ==
    /\ r.op = "delete" /\ r.pc = "readFileDone"
    /\ IF ~bloomFilter.defined
       THEN /\ Finish(r, r, Threw("TypeError: bloomFilter is undefined"))
            /\ UNCHANGED <<bloomFilter, added>>
       ELSE /\ bloomFilter' = Defined(FilterRemove(bloomFilter.cells, r.fileBuffer))
            /\ added' = added \ {r.fileBuffer}
            /\ Continue(r, [r EXCEPT !.pc = "unlink"])
    /\ UNCHANGED <<queue, redis, uploads, loader, uuidCount, s3Objects, issued, deleteCalled,
                   calls, expired, client, callers>>

\* fs.promises.unlink(filePath) takes effect
Unlink(dir, file) == [f \in DOMAIN dir \ {file} |-> dir[f]]

\* unlink removes the blob, or fails when it is gone
DeleteUnlink(r) ==
    /\ r.op = "delete" /\ r.pc = "unlink"
    /\ IF r.matchedFile \in DOMAIN uploads
       THEN /\ uploads' = Unlink(uploads, r.matchedFile)
            /\ Continue(r, [r EXCEPT !.pc = "unlinkDone"])
       ELSE /\ uploads' = uploads
            /\ Finish(r, r, Threw("ENOENT"))
    /\ UNCHANGED <<queue, redis, bloomFilter, loader, uuidCount, s3Objects, issued, added,
                   deleteCalled, calls, expired, client, callers>>

\* saveBloomFilter(this.bloomFilter) is issued
DeleteSave(r) ==
    /\ r.op = "delete" /\ r.pc = "unlinkDone"
    /\ redis' = SaveBloomFilter(redis, bloomFilter.cells)
    /\ Continue(r, [r EXCEPT !.pc = "saveBloomFilter"])
    /\ UNCHANGED <<queue, uploads, bloomFilter, loader, uuidCount, s3Objects, issued, added,
                   deleteCalled, calls, expired, client, callers>>

\* deleteFileInfoByFileId(fileId) is issued
DeleteFileInfo(r) ==
    /\ r.op = "delete" /\ r.pc = "saveBloomFilter"
    /\ redis' = DeleteFileInfoByFileId(redis, r.fileId)
    /\ Continue(r, [r EXCEPT !.pc = "deleteFileInfo"])
    /\ UNCHANGED <<queue, uploads, bloomFilter, loader, uuidCount, s3Objects, issued, added,
                   deleteCalled, calls, expired, client, callers>>

\* deleteFileInfoWithSameHash(fileHash): the scan of the hash keys is issued
DeleteScan(r) ==
    /\ r.op = "delete" /\ r.pc = "deleteFileInfo"
    /\ Continue(r, [r EXCEPT !.pc = "scan", !.keys = Scan(redis, Pattern_hash)])
    /\ UNCHANGED <<queue, redis, uploads, bloomFilter, loader, uuidCount, s3Objects, issued,
                   added, deleteCalled, calls, expired, client, callers>>

\* the scanned keys are compared and deleted; deleteFile returns
DeleteSameHash(r) ==
    /\ r.op = "delete" /\ r.pc = "scan"
    /\ redis' = DeleteFileInfoWithSameHash(redis, r.keys, r.fileHash)
    /\ Finish(r, r, Returned([message |-> "File deleted successfully"]))
    /\ UNCHANGED <<queue, uploads, bloomFilter, loader, uuidCount, s3Objects, issued, added,
                   deleteCalled, calls, expired, client, callers>>

(***************************************************************************)
(* deleteAllFiles                                                          *)
(***************************************************************************)
\* the call, up to the moment readdir has read the directory
DeleteAllReaddir ==
    /\ calls < MaxCalls
    /\ calls' = calls + 1
    /\ Arrive([IdleTask EXCEPT !.op = "deleteAll", !.pc = "unlinking",
                               !.todo = DOMAIN uploads, !.alone = Quiet])
    /\ deleteCalled' = TRUE
    /\ UNCHANGED <<queue, redis, uploads, bloomFilter, loader, uuidCount, s3Objects, issued,
                   added, expired, client, callers>>

\* for (const file of files) await unlink: the next file of the listing is
\* removed, or the loop ends with an error when it is gone
DeleteAllUnlink(r) ==
    /\ r.op = "deleteAll" /\ r.pc = "unlinking"
    /\ \E file \in r.todo :
          IF file \in DOMAIN uploads
          THEN /\ uploads' = Unlink(uploads, file)
               /\ Continue(r, [r EXCEPT !.todo = @ \ {file}])
          ELSE /\ uploads' = uploads
               /\ Finish(r, r, Threw("ENOENT"))
    /\ UNCHANGED <<queue, redis, bloomFilter, loader, uuidCount, s3Objects, issued, added,
                   deleteCalled, calls, expired, client, callers>>

\* after the loop: a new empty filter replaces this.bloomFilter and its save
\* is issued
DeleteAllNewFilter(r) ==
    /\ r.op = "deleteAll" /\ r.pc = "unlinking"
    /\ r.todo = {}
    /\ bloomFilter' = Defined(CreateFilter)
    /\ added' = {}
    /\ redis' = SaveBloomFilter(redis, CreateFilter)
    /\ Continue(r, [r EXCEPT !.pc = "saveBloomFilter"])
    /\ UNCHANGED <<queue, uploads, loader, uuidCount, s3Objects, issued, deleteCalled, calls,
                   expired, client, callers>>

\* deleteByPattern('file:*:hash'): the scan is issued
DeleteAllScanHash(r) ==
    /\ r.op = "deleteAll" /\ r.pc = "saveBloomFilter"
    /\ Continue(r, [r EXCEPT !.pc = "scanHash", !.keys = ClientScan(redis, Pattern_hash)])
    /\ UNCHANGED <<queue, redis, uploads, bloomFilter, loader, uuidCount, s3Objects, issued,
                   added, deleteCalled, calls, expired, client, callers>>

\* the reply: the listed keys are deleted; the cursor is 0, the loop ends
DeleteAllDelHash(r) ==
    /\ r.op = "deleteAll" /\ r.pc = "scanHash"
    /\ redis' = RedisDel(redis, r.keys)
    /\ Continue(r, [r EXCEPT !.pc = "delHash", !.keys = {}])
    /\ UNCHANGED <<queue, uploads, bloomFilter, loader, uuidCount, s3Objects, issued, added,
                   deleteCalled, calls, expired, client, callers>>

\* deleteByPattern('file:*:filename'): the scan is issued
DeleteAllScanName(r) ==
    /\ r.op = "deleteAll" /\ r.pc = "delHash"
    /\ Continue(r, [r EXCEPT !.pc = "scanName", !.keys = ClientScan(redis, Pattern_filename)])
    /\ UNCHANGED <<queue, redis, uploads, bloomFilter, loader, uuidCount, s3Objects, issued,
                   added, deleteCalled, calls, expired, client, callers>>

\* the reply: the listed keys are deleted; deleteAllFiles returns
DeleteAllDelName(r) ==
    /\ r.op = "deleteAll" /\ r.pc = "scanName"
    /\ redis' = RedisDel(redis, r.keys)
    /\ Finish(r, r, Returned([message |-> "All files deleted successfully"]))
    /\ UNCHANGED <<queue, uploads, bloomFilter, loader, uuidCount, s3Objects, issued, added,
                   deleteCalled, calls, expired, client, callers>>

(***************************************************************************)
(* S3Service                                                               *)
(***************************************************************************)
\* a set of types that lets 'admin' through, to tell from the code's
S3TypesWithAdmin == {"user", "room", "admin"}

\* the types S3Service._generateS3Key accepts
S3Types == {"user", "room"}

\* a key that leaves the id out, to tell from the code's
_generateS3KeyWithoutId(type, id, filename) == <<type, "/">> \o filename

\* S3Service._generateS3Key for a type it accepts
_generateS3Key(type, id, filename) == <<type, "/", id, "/">> \o filename

\* the location S3Service.uploadFile returns
Location(key) == <<"https://", "bucket", ".s3.", "region", ".amazonaws.com/">> \o key

\* encodeURIComponent, on the characters file names are made of here
RECURSIVE EncodeURIComponent(_)
EncodeURIComponent(s) ==
    IF s = NULL THEN Str_null
    ELSE IF s = <<>> THEN <<>>
    ELSE IF Head(s) = "%" THEN <<"%", "2", "5">> \o EncodeURIComponent(Tail(s))
    ELSE <<Head(s)>> \o EncodeURIComponent(Tail(s))

(***************************************************************************)
(* download                                                                *)
(***************************************************************************)
Ways == {"local", "staging-area", "google-cloud", "ftp"}

\* the query parameters a staging-area request may carry; '' is a missing one
Queries == {<<"user", "u">>, <<"room", "u">>, <<"admin", "u">>, <<"", "u">>, <<"user", "">>}

\* a lookup with the arguments of startsWith exchanged, to tell from the code's
DownloadMatchesSwapped(files, fileHash) == {f \in files : StartsWith(fileHash, f)}

\* files.find((file) => file.startsWith(fileHash))
DownloadMatches(files, fileHash) == {f \in files : StartsWith(f, fileHash)}

\* the call: connect (already open) and get file:{fileId}:hash.  way, type
\* and id are request parameters the handler first looks at when it
\* dispatches, so they are drawn there
DownloadStart(fileId) ==
    /\ fileId \in KnownIds
    /\ calls < MaxCalls
    /\ calls' = calls + 1
    /\ Arrive([IdleTask EXCEPT !.op = "download", !.pc = "readdir", !.fileId = fileId,
                               !.fileHash = RedisGet(redis, HashKey(fileId)),
                               !.alone = Quiet])
    /\ UNCHANGED <<queue, redis, uploads, bloomFilter, loader, uuidCount, s3Objects, issued,
                   added, deleteCalled, expired, client, callers>>

\* fs.promises.readdir has read the directory; the blob is looked up among
\* the names listed and the request is dispatched on its way
DownloadReaddir(r, way, query) ==
    /\ r.op = "download" /\ r.pc = "readdir"
    /\ LET matches == DownloadMatches(DOMAIN uploads, r.fileHash)
           req == [r EXCEPT !.way = way, !.type = query[1], !.id = query[2]]
       IN  IF matches = {}
           THEN Finish(r, req, Threw("File not found"))
           ELSE \E matchedFile \in matches :
                 LET rec == [req EXCEPT !.matchedFile = matchedFile]
                 IN  IF way = "local"
                     THEN Continue(r, [rec EXCEPT !.pc = "open"])
                     ELSE IF way = "staging-area"
                     THEN IF rec.type = "" \/ rec.id = ""
                          THEN Finish(r, rec, Threw("Type and id query parameters are required for staging-area download."))
                          ELSE Continue(r, [rec EXCEPT !.pc = "stagingArea"])
                     ELSE IF way = "google-cloud"
                     THEN Finish(r, rec, Returned(JsUndefined))
                     ELSE Finish(r, rec, Threw("Invalid download way."))
    /\ UNCHANGED <<queue, redis, uploads, bloomFilter, loader, uuidCount, s3Objects, issued,
                   added, deleteCalled, calls, expired, client, callers>>

\* an open with flag 'w', which creates or truncates the blob, to tell from
\* the code's
DownloadOpenForWriting(r) ==
    /\ r.op = "download" /\ r.pc = "open"
    /\ uploads' = WriteFile(uploads, r.matchedFile, 1)
    /\ Continue(r, [r EXCEPT !.pc = "opened", !.fileBuffer = 1])
    /\ UNCHANGED <<queue, redis, bloomFilter, loader, uuidCount, s3Objects, issued, added,
                   deleteCalled, calls, expired, client, callers>>

\* _localDownload: fs.promises.open opens the blob, or fails when it is gone;
\* the stream made on the descriptor delivers the bytes the blob then holds
DownloadOpen(r) ==
    /\ r.op = "download" /\ r.pc = "open"
    /\ IF r.matchedFile \in DOMAIN uploads
       THEN Continue(r, [r EXCEPT !.pc = "opened", !.fileBuffer = uploads[r.matchedFile]])
       ELSE Finish(r, r, Threw("ENOENT"))
    /\ UNCHANGED <<queue, redis, uploads, bloomFilter, loader, uuidCount, s3Objects, issued,
                   added, deleteCalled, calls, expired, client, callers>>

\* _localDownload: get file:{fileId}:filename; the stream and the name are returned
DownloadLocalReturn(r) ==
    /\ r.op = "download" /\ r.pc = "opened"
    /\ Finish(r, r, Returned([stream |-> r.fileBuffer,
                              filename |-> RedisGet(redis, NameKey(r.fileId))]))
    /\ UNCHANGED <<queue, redis, uploads, bloomFilter, loader, uuidCount, s3Objects, issued,
                   added, deleteCalled, calls, expired, client, callers>>

\* _stagingAreaDownload: get file:{fileId}:filename
DownloadStagingArea(r) ==
    /\ r.op = "download" /\ r.pc = "stagingArea"
    /\ Continue(r, [r EXCEPT !.pc = "s3Upload", !.filename = RedisGet(redis, NameKey(r.fileId))])
    /\ UNCHANGED <<queue, redis, uploads, bloomFilter, loader, uuidCount, s3Objects, issued,
                   added, deleteCalled, calls, expired, client, callers>>

\* S3Service.uploadFile up to the send: the key, the check that the blob
\* is still on disk
DownloadS3Upload(r) ==
    /\ r.op = "download" /\ r.pc = "s3Upload"
    /\ IF r.type \notin S3Types
       THEN Finish(r, r, Threw("[S3Service] Invalid type"))
       ELSE IF r.matchedFile \notin DOMAIN uploads
       THEN Finish(r, r, Threw("[S3Service] File not found"))
       ELSE Continue(r, [r EXCEPT !.pc = "send"])
    /\ UNCHANGED <<queue, redis, uploads, bloomFilter, loader, uuidCount, s3Objects, issued,
                   added, deleteCalled, calls, expired, client, callers>>

\* the PutObjectCommand completes: the object is stored and the location
\* returned, or the put fails (always so when the blob can no longer be read)
DownloadSend(r) ==
    /\ r.op = "download" /\ r.pc = "send"
    /\ LET key == _generateS3Key(r.type, r.id, r.matchedFile)
       IN  \/ /\ r.matchedFile \in DOMAIN uploads
              /\ s3Objects' = s3Objects \cup
                    {[Key |-> key, Body |-> uploads[r.matchedFile],
                      originalName |-> EncodeURIComponent(r.filename)]}
              /\ Finish(r, [r EXCEPT !.puts = @ + 1],
                        Returned([fileId |-> r.fileId, filename |-> r.filename,
                                  location |-> Location(key)]))
           \/ /\ s3Objects' = s3Objects
              /\ Finish(r, r, Threw("PutObject failed"))
    /\ UNCHANGED <<queue, redis, uploads, bloomFilter, loader, uuidCount, issued, added,
                   deleteCalled, calls, expired, client, callers>>

(***************************************************************************)
(* Expiry                                                                  *)
(***************************************************************************)
\* the keys that carry a time to live
Volatile == {k \in DOMAIN redis : redis[k].ttl # NoTtl}

\* key k was given its time to live before key l: file ids are drawn in the
\* order of the uploads, and _saveFileInfo writes the hash entry first
SetBefore(k, l) == k[2] < l[2] \/ (k[2] = l[2] /\ k[3] = "hash" /\ l[3] = "filename")

\* a key's time to live runs out; all are given the same thirty days, so
\* the key that was set first expires first.  Handlers last milliseconds:
\* the thirty days run out between requests, not in the middle of one
Expire(key) ==
    /\ key \in Volatile
    /\ \A l \in Volatile : ~SetBefore(l, key)
    /\ tasks = EmptyBag
    /\ expired < MaxExpired
    /\ expired' = expired + 1
    /\ redis' = RedisDel(redis, {key})
    /\ done' = IdleTask
    /\ UNCHANGED <<queue, uploads, bloomFilter, loader, tasks, uuidCount, s3Objects, issued,
                   added, deleteCalled, calls, client, callers>>

(***************************************************************************)
(* RedisClient.connect and the connection of this.client.  The handlers    *)
(* above take the connection as open; the actions below follow it from     *)
(* the closed socket that createClient leaves.                             *)
(***************************************************************************)
RetryLimit == 5
RetryStep == 500
TooManyAttempts == "Too many attempts to reconnect. Redis connection was terminated"

\* a strategy that gives up one retry early, to tell from the code's
reconnectStrategyFromLimit(retries) ==
    IF retries >= RetryLimit
    THEN [type |-> "Error", value |-> 0, message |-> TooManyAttempts]
    ELSE [type |-> "number", value |-> retries * RetryStep, message |-> ""]

\* socket.reconnectStrategy of the options given to createClient
reconnectStrategy(retries) ==
    IF retries > RetryLimit
    THEN [type |-> "Error", value |-> 0, message |-> TooManyAttempts]
    ELSE [type |-> "number", value |-> retries * RetryStep, message |-> ""]

\* caller c moves on
Caller(c, pc, error) == callers' = [callers EXCEPT ![c] = [pc |-> pc, error |-> error]]

\* the callers that await the client.connect() in progress settle
Awaited(pc, error) ==
    callers' = [c \in Callers |->
                  IF callers[c].pc = "awaiting" THEN [pc |-> pc, error |-> error]
                  ELSE callers[c]]

\* this.client.connect(): the socket is marked open at once and the first
\* attempt starts; on a socket already open the call is rejected
ClientConnect(c) ==
    IF client.isOpen
    THEN /\ client' = [client EXCEPT !.connects = @ + 1, !.asked = @ + 1]
         /\ Caller(c, "rejected", "Socket already opened")
    ELSE /\ client' = [client EXCEPT !.isOpen = TRUE, !.phase = "connecting", !.retries = 0,
                                     !.wait = 0, !.connects = @ + 1, !.asked = @ + 1,
                                     !.error = ""]
         /\ Caller(c, "awaiting", "")

\* a connect that calls this.client.connect() whatever isOpen says, to tell
\* from the code's
ConnectWithoutGuard(c) ==
    /\ callers[c].pc = "idle"
    /\ client.asked < MaxConnectCalls
    /\ ClientConnect(c)
    /\ UNCHANGED <<redis, uploads, bloomFilter, loader, tasks, done, uuidCount, s3Objects,
                   issued, added, deleteCalled, calls, expired, queue>>

\* RedisClient.connect
Connect(c) ==
    /\ callers[c].pc = "idle"
    /\ client.asked < MaxConnectCalls
    /\ IF ~client.isOpen
       THEN ClientConnect(c)
       ELSE /\ client' = [client EXCEPT !.asked = @ + 1]
            /\ Caller(c, "resolved", "")
    /\ UNCHANGED <<redis, uploads, bloomFilter, loader, tasks, done, uuidCount, s3Objects,
                   issued, added, deleteCalled, calls, expired, queue>>

\* the attempt succeeds: the client is ready and client.connect() resolves
SocketConnected ==
    /\ client.phase = "connecting"
    /\ client' = [client EXCEPT !.isReady = TRUE, !.phase = "ready"]
    /\ Awaited("resolved", "")
    /\ UNCHANGED <<redis, uploads, bloomFilter, loader, tasks, done, uuidCount, s3Objects,
                   issued, added, deleteCalled, calls, expired, queue>>

\* the attempt fails and the strategy is asked with the retries so far: a
\* number is the wait before the next attempt; an Error closes the socket
\* and rejects client.connect(), and RedisClient.connect logs and rethrows
SocketFailed ==
    /\ client.phase = "connecting"
    /\ LET retryIn == reconnectStrategy(client.retries)
       IN  IF retryIn.type = "Error"
           THEN /\ client' = [client EXCEPT !.isOpen = FALSE, !.phase = "closed",
                                            !.retries = @ + 1, !.connects = 0,
                                            !.error = retryIn.message]
                /\ Awaited("rejected", retryIn.message)
           ELSE /\ client' = [client EXCEPT !.phase = "waiting", !.retries = @ + 1,
                                            !.wait = retryIn.value]
                /\ callers' = callers
    /\ UNCHANGED <<redis, uploads, bloomFilter, loader, tasks, done, uuidCount, s3Objects,
                   issued, added, deleteCalled, calls, expired, queue>>

\* the wait is over: the next attempt starts
Retry ==
    /\ client.phase = "waiting"
    /\ client' = [client EXCEPT !.phase = "connecting"]
    /\ UNCHANGED <<redis, uploads, bloomFilter, loader, tasks, done, uuidCount, s3Objects,
                   issued, added, deleteCalled, calls, expired, queue, callers>>

\* an open connection is lost: the client reconnects by itself, counting
\* its retries from zero
SocketLost ==
    /\ client.phase = "ready"
    /\ client.lost < MaxLost
    /\ client' = [client EXCEPT !.isReady = FALSE, !.phase = "connecting", !.retries = 0,
                                !.wait = 0, !.lost = @ + 1]
    /\ UNCHANGED <<redis, uploads, bloomFilter, loader, tasks, done, uuidCount, s3Objects,
                   issued, added, deleteCalled, calls, expired, queue, callers>>

\* the operation of caller c goes on after its connect has settled
Return(c) ==
    /\ callers[c].pc \in {"resolved", "rejected"}
    /\ callers' = [callers EXCEPT ![c] = IdleCaller]
    /\ UNCHANGED <<redis, uploads, bloomFilter, loader, tasks, done, uuidCount, s3Objects,
                   issued, added, deleteCalled, calls, expired, queue, client>>

Next ==
    \/ LoadFilterRead
    \/ LoadFilterParsed
    \/ LoadFilterAssign
    \/ \E file \in Contents \cup {NoFile}, originalname \in OriginalNames :
          UploadStart(file, originalname)
    \/ \E r \in InFlight : UploadWriteFile(r)
    \/ \E r \in InFlight : UploadAdd(r)
    \/ \E fileId \in FileIds \cup {UnknownId} : DeleteReaddir(fileId)
    \/ \E r \in InFlight : DeleteFind(r)
    \/ \E r \in InFlight : DeleteReadFile(r)
    \/ \E r \in InFlight : DeleteRemove(r)
    \/ \E r \in InFlight : DeleteUnlink(r)
    \/ \E r \in InFlight : DeleteSave(r)
    \/ \E r \in InFlight : DeleteFileInfo(r)
    \/ \E r \in InFlight : DeleteScan(r)
    \/ \E r \in InFlight : DeleteSameHash(r)
    \/ DeleteAllReaddir
    \/ \E r \in InFlight : DeleteAllUnlink(r)
    \/ \E r \in InFlight : DeleteAllNewFilter(r)
    \/ \E r \in InFlight : DeleteAllScanHash(r)
    \/ \E r \in InFlight : DeleteAllDelHash(r)
    \/ \E r \in InFlight : DeleteAllScanName(r)
    \/ \E r \in InFlight : DeleteAllDelName(r)
    \/ \E fileId \in FileIds \cup {UnknownId} : DownloadStart(fileId)
    \/ \E r \in InFlight, way \in Ways \ {"staging-area"} :
          DownloadReaddir(r, way, <<"", "">>)
    \/ \E r \in InFlight, query \in Queries : DownloadReaddir(r, "staging-area", query)
    \/ \E r \in InFlight : DownloadOpen(r)
    \/ \E r \in InFlight : DownloadLocalReturn(r)
    \/ \E r \in InFlight : DownloadStagingArea(r)
    \/ \E r \in InFlight : DownloadS3Upload(r)
    \/ \E r \in InFlight : DownloadSend(r)
    \/ \E key \in DOMAIN redis : Expire(key)

Spec == Init /\ [][Next]_vars

\* the uploads alone, their Redis commands in flight
NextQueue ==
    \/ LoadFilterRead
    \/ LoadFilterParsed
    \/ LoadFilterAssign
    \/ \E file \in Contents \cup {NoFile}, originalname \in OriginalNames :
          UploadSend(file, originalname)
    \/ \E r \in InFlight : UploadWriteFile(r)
    \/ \E r \in InFlight : UploadAddSend(r)
    \/ ReplyOk
    \/ ReplyError

SpecQueue == Init /\ [][NextQueue]_vars

\* the connection alone, with the operations that call RedisClient.connect
NextConnect ==
    \/ \E c \in Callers : Connect(c)
    \/ SocketConnected
    \/ SocketFailed
    \/ Retry
    \/ SocketLost
    \/ \E c \in Callers : Return(c)

SpecConnect == Init /\ [][NextConnect]_vars

(***************************************************************************)
(* Properties                                                              *)
(***************************************************************************)
\* the blobs of the uploads directory whose name starts with the hash of a payload
BlobsOf(file) == {f \in DOMAIN uploads : StartsWith(f, _calculateFileHash(file))}

\* the last step settled a call of op
Settled(op) == done.op = op /\ done.pc = "done"

\* C1: when two uploadFile calls of identical bytes have returned and no
\* deleteFile or deleteAllFiles was called, their fileIds differ and the
\* uploads directory holds exactly one blob of that content
C1_UploadIdempotence ==
    \A i, j \in issued :
        (i # j /\ i.file = j.file /\ ~deleteCalled)
            => (i.fileId # j.fileId /\ Cardinality(BlobsOf(i.file)) = 1)

\* C2: in every reachable state the uploads directory holds at most one
\* blob per content hash
C2_OneBlobPerHash == \A file \in Contents : Cardinality(BlobsOf(file)) <= 1

\* the upload that returned fileId
IssuedIds == {i.fileId : i \in issued}
Issued(fileId) == CHOOSE i \in issued : i.fileId = fileId

\* both entries of the FileRecord of fileId are in the store
Resolvable(fileId) == HashKey(fileId) \in DOMAIN redis /\ NameKey(fileId) \in DOMAIN redis

\* a download(F, 'local') has settled, F was returned by an upload, no
\* deleteFile or deleteAllFiles was ever called and the record of F is there
LocalDownloadOfIssued ==
    /\ Settled("download") /\ done.way = "local"
    /\ done.fileId \in IssuedIds
    /\ ~deleteCalled
    /\ Resolvable(done.fileId)

\* what C3 expects of download(fileId, 'local')
StreamOfIssued(fileId) ==
    Returned([stream |-> Issued(fileId).file, filename |-> Issued(fileId).filename])

\* C3 as stated: for every fileId F an upload of bytes B returned, while no
\* delete was called and the record is there, download(F, 'local') returns
\* a stream of content B and the filename stored for F
C3_LocalDownloadSucceeds ==
    LocalDownloadOfIssued => done.outcome = StreamOfIssued(done.fileId)

\* C3 amended: under the same conditions download(F, 'local') returns a
\* stream of content B and the filename stored for F, unless the upload of
\* F skipped the write because the filter reported B present while no blob
\* of B was ever stored; the download then fails with 'File not found'
C3_LocalDownloadUnlessFalsePositive ==
    LocalDownloadOfIssued =>
        \/ done.outcome = StreamOfIssued(done.fileId)
        \/ /\ done.outcome = Threw("File not found")
           /\ Issued(done.fileId).exist
           /\ BlobsOf(Issued(done.fileId).file) = {}

\* C3 witness: such a download returned the stream of a stored blob
C3_Witness == LocalDownloadOfIssued /\ done.outcome.status = "returned"

\* C4: after a deleteFile(F) that ran with no other handler interleaved and
\* returned, the entries of F and of every fileId with the same stored hash
\* are gone from the store and no blob of that hash is left in the directory
C4_DeleteRemovesRecordsAndBlob ==
    (Settled("delete") /\ done.outcome.status = "returned" /\ done.alone
        /\ done.fileHash # NULL) =>
        /\ HashKey(done.fileId) \notin DOMAIN redis
        /\ NameKey(done.fileId) \notin DOMAIN redis
        /\ \A k \in DOMAIN redis : k[3] = "hash" => redis[k].value # done.fileHash
        /\ \A f \in DOMAIN uploads : ~StartsWith(f, done.fileHash)

\* C5: every content added to the filter and not removed since is reported
\* present by has
C5_NoFalseNegative ==
    bloomFilter.defined => \A c \in added : FilterHas(bloomFilter.cells, c)

\* a deleteAllFiles that ran with no other handler interleaved has returned
DeleteAllReturned ==
    Settled("deleteAll") /\ done.outcome.status = "returned" /\ done.alone

\* C6: after a deleteAllFiles that ran with no other handler interleaved,
\* the uploads directory is empty, this.bloomFilter and the stored snapshot
\* are the empty filter (has is false for every content), and the store
\* holds no file:*:hash and no file:*:filename key
C6_DeleteAllLeavesNothing ==
    DeleteAllReturned =>
        /\ DOMAIN uploads = {}
        /\ bloomFilter = Defined(CreateFilter)
        /\ \A c \in Contents : ~FilterHas(bloomFilter.cells, c)
        /\ LoadBloomFilter(redis) = SaveAsJSON(CreateFilter)
        /\ \A k \in DOMAIN redis : k[1] = "file" => k[3] \notin {"hash", "filename"}

\* an uploadFile call has returned
UploadReturned == Settled("upload") /\ done.outcome.status = "returned"

C8_OtherWaysAreInvalid ==
    (Settled("download") /\ done.way \notin {"local", "staging-area"}
        /\ done.outcome # Threw("File not found")) =>
        done.outcome = Threw("Invalid download way.")

\* C9: a deleteFile or download whose fileId has no hash entry in the store
\* fails with 'File not found', and such a deleteFile never gets as far as
\* removing a payload from the filter or a blob from the directory
C9_NoRecordIsNotFound ==
    /\ (done.pc = "done" /\ done.op \in {"delete", "download"} /\ done.fileHash = NULL) =>
          done.outcome = Threw("File not found")
    /\ \A r \in InFlight :
          (r.op = "delete" /\ r.fileHash = NULL) =>
              r.pc \notin {"unlink", "unlinkDone", "saveBloomFilter", "deleteFileInfo", "scan"}

\* a 'staging-area' download whose blob was found has settled
StagingAreaSettled ==
    Settled("download") /\ done.way = "staging-area"
        /\ done.outcome # Threw("File not found")

ValidationError ==
    Threw("Type and id query parameters are required for staging-area download.")

\* C10 as stated: with type or id missing the download fails with the
\* validation error and puts nothing; with both present it puts the blob
\* once and returns the location
C10_StagingAreaPutsOnce ==
    StagingAreaSettled =>
        IF done.type = "" \/ done.id = ""
        THEN done.outcome = ValidationError /\ done.puts = 0
        ELSE done.puts = 1 /\ done.outcome.status = "returned"

\* C10 amended: with type or id missing the download fails with the
\* validation error and puts nothing; with both present and a type other
\* than 'user' and 'room' it fails and puts nothing; whenever it returns it
\* has put the matched blob exactly once under {type}/{id}/{blob name} and
\* returns that object's location; whenever it fails it has put nothing
C10_StagingAreaPutsOnceOrFails ==
    StagingAreaSettled =>
        /\ (done.type = "" \/ done.id = "") =>
              (done.outcome = ValidationError /\ done.puts = 0)
        /\ (done.type \notin {"", "user", "room"} /\ done.id # "") =>
              done.outcome = Threw("[S3Service] Invalid type")
        /\ done.outcome.status = "threw" => done.puts = 0
        /\ done.outcome.status = "returned" =>
              LET key == <<done.type, "/", done.id, "/">> \o done.matchedFile
              IN  /\ done.puts = 1
                  /\ done.type \in {"user", "room"} /\ done.id # ""
                  /\ \E object \in s3Objects : object.Key = key
                  /\ done.outcome.value.location = Location(key)
                  /\ done.outcome.value.fileId = done.fileId

\* C10 witness: a 'staging-area' download has put the blob and returned
C10_Witness == StagingAreaSettled /\ done.outcome.status = "returned" /\ done.puts = 1

\* C11: uploadFile rejects an absent payload with the error 'No file was
\* uploaded.' before it draws a file id or writes anything, and an upload of
\* an empty (zero-length) payload never gets past validation: it is not in
\* flight past its first step and it settles with an error
C11_EmptyOrAbsentRejected ==
    /\ Settled("upload") /\ done.file = NoFile =>
            /\ done.outcome = Threw("Error: No file was uploaded.")
            /\ done.fileId = IdleTask.fileId
    /\ \A r \in InFlight \cup {done} :
            r.op = "upload" /\ r.file # NoFile /\ ByteLength(r.file) = 0 =>
                r.outcome.status = "threw"

\* a command sent by the upload that drew fileId is still to be replied to
InQueue(fileId) == \E n \in DOMAIN queue : queue[n].fileId = fileId

\* a FileRecord command sent by the upload that drew fileId is still to be
\* replied to
RecordInQueue(fileId) ==
    \E n \in DOMAIN queue : queue[n].fileId = fileId /\ ~queue[n].awaited

\* C12: an uploadFile call that returned a fileId had no failed write: no
\* set or expire of its FileRecord is rejected, and once all its commands
\* are answered both entries are stored with the 30-day expiry
C12_WriteFailureIsReported ==
    \A i \in issued :
        /\ ~(/\ done.op \in {"set", "expire"}
             /\ done.outcome.status = "threw"
             /\ done.fileId = i.fileId)
        /\ ~InQueue(i.fileId) =>
               \A key \in {HashKey(i.fileId), NameKey(i.fileId)} :
                   key \in DOMAIN redis /\ redis[key].ttl = ThirtyDays

\* C14: the steps of one uploadFile call take effect in order: once its
\* dedup check has been evaluated favourably or not (the call waits for the
\* blob write or the save, or has returned) no FileRecord command of it is
\* still unanswered; while it waits to add or for the save the blob is
\* written; while it waits for the save the payload is added
C14_StepsInOrder ==
    \A r \in InFlight \cup {done} :
        r.op = "upload" =>
            /\ r.pc \in {"writeFile", "written", "saveBloomFilter"}
                   \/ r.outcome.status = "returned"
                => ~RecordInQueue(r.fileId)
            /\ r.pc \in {"written", "saveBloomFilter"}
                => _generateUniqueFilename(r.filename, r.fileHash) \in DOMAIN uploads
            /\ r.pc = "saveBloomFilter" => r.file \in added

\* C13: once _loadFilter has completed the store holds a snapshot, and
\* whenever no uploadFile, deleteFile or deleteAllFiles call is in flight
\* the snapshot is the serialization of this.bloomFilter
C13_SnapshotMatchesFilter ==
    loader.pc = "loaded" =>
        /\ BloomKey \in DOMAIN redis
        /\ (\A r \in InFlight : r.op = "download")
               => LoadBloomFilter(redis) = SaveAsJSON(bloomFilter.cells)

\* C15: when two uploadFile calls of the same new content c have both
\* written and returned (neither saw the other's add), and then one
\* deleteFile, the only delete ever called, has run alone on one of their
\* fileIds and returned, the filter no longer reports c
C15_ConcurrentUploadsThenDelete ==
    \A c \in Contents :
        /\ Cardinality(issued) = 2
        /\ \A i \in issued : i.file = c /\ ~i.exist
        /\ Settled("delete") /\ done.outcome.status = "returned" /\ done.alone
        /\ done.fileId \in IssuedIds
        /\ calls = 1
        => ~FilterHas(bloomFilter.cells, c)

\* C16: whenever no call is in flight and the filter is loaded, has is true
\* of the content of every blob in the uploads directory
C16_FilterCoversBlobs ==
    tasks = EmptyBag /\ bloomFilter.defined =>
        \A f \in DOMAIN uploads : FilterHas(bloomFilter.cells, uploads[f])

\* C17: no counter of this.bloomFilter is ever below zero
C17_CountersNotNegative == \A n \in 1..NumCells : bloomFilter.cells[n] >= 0

\* C18: a deleteFile call whose unlink has removed a blob had read a hash
\* from the FileRecord of its fileId, and the blob's name starts with it
C18_BlobRemovedByItsRecord ==
    \A r \in InFlight :
        r.op = "delete" /\ r.pc = "unlinkDone" =>
            r.fileHash # NULL /\ StartsWith(r.matchedFile, r.fileHash)

\* C20: the keys deleteByPattern(p) is about to delete all match p
C20_DeletesOnlyMatchingKeys ==
    \A r \in InFlight :
        /\ r.op = "deleteAll" /\ r.pc = "scanHash" =>
               \A k \in r.keys : Glob(Pattern_hash, k)
        /\ r.op = "deleteAll" /\ r.pc = "scanName" =>
               \A k \in r.keys : Glob(Pattern_filename, k)

\* C19: once an uploadFile call has returned fileId, an entry of its
\* FileRecord that is in the store has the 30-day expiry, and its hash
\* entry is never there without its filename entry
C19_RecordsExpireTogether ==
    \A i \in issued :
        /\ \A key \in {HashKey(i.fileId), NameKey(i.fileId)} :
               key \in DOMAIN redis => redis[key].ttl = ThirtyDays
        /\ HashKey(i.fileId) \in DOMAIN redis => NameKey(i.fileId) \in DOMAIN redis

\* C21: every object in the bucket has a key of the form {type}/{id}/{name}
\* with type 'user' or 'room'; a staging-area download that returned put
\* its object under exactly {type}/{id}/{blob name}; no call with another
\* type waits for a put, and a staging-area download that reached
\* S3Service.uploadFile with another type settled with the error 'Invalid
\* type', having put nothing
C21_KeyOrInvalidType ==
    /\ \A o \in s3Objects : o.Key[1] \in {"user", "room"} /\ o.Key[2] = "/"
    /\ \A r \in InFlight :
           r.op = "download" /\ r.pc = "send" => r.type \in {"user", "room"}
    /\ StagingAreaSettled /\ done.outcome.status = "returned" =>
           LET key == <<done.type, "/", done.id, "/">> \o done.matchedFile
           IN  /\ done.type \in {"user", "room"}
               /\ done.outcome.value.location = Location(key)
               /\ \E o \in s3Objects : o.Key = key
    /\ StagingAreaSettled /\ done.type \notin {"", "user", "room"} /\ done.id # "" =>
           /\ done.outcome = Threw("[S3Service] Invalid type")
           /\ done.puts = 0

\* C21 witness: a staging-area download with type 'admin' has reached
\* S3Service.uploadFile and failed
C21_Witness ==
    /\ StagingAreaSettled /\ done.type = "admin" /\ done.id # ""
    /\ done.outcome.status = "threw"

\* C22: this.bloomFilter is not used before _loadFilter has completed: no
\* call has failed for evaluating has, add or remove on the filter that is
\* not there yet, and until the load completes nobody else has put a
\* filter in its place (and saved it)
C22_LoadedBeforeUse ==
    /\ done.outcome # Threw("TypeError: bloomFilter is undefined")
    /\ loader.pc # "loaded" => ~bloomFilter.defined

\* C23: at most one this.client.connect() is issued while the socket is
\* not closed again; no RedisClient.connect call is rejected for finding the
\* socket already opened: a call is rejected only when the connection
\* could not be opened and the strategy gave up; and once the client is
\* ready no call is left waiting
C23_ConnectOnce ==
    /\ client.connects <= 1
    /\ \A c \in Callers :
           /\ callers[c].pc = "rejected" => callers[c].error = TooManyAttempts
           /\ client.isReady => callers[c].pc # "awaiting"

\* C23 witness: while the connection is being opened one call awaits
\* this.client.connect() and another call has found isOpen set and resolved
C23_Witness ==
    /\ client.isOpen /\ ~client.isReady
    /\ \E c, d \in Callers : callers[c].pc = "awaiting" /\ callers[d].pc = "resolved"

\* C25: asked with a retry count n from 0 to 5 the strategy answers the
\* wait n * 500 ms, asked with a greater one it answers an Error; so a
\* client that waits to retry waits 500 ms times the number of retries
\* before, at most 5, and a client that gave up did so when asked the
\* seventh time (n = 6), after which its socket is closed
C25_ReconnectBounded ==
    /\ \A n \in 0..MaxRetries :
           IF n <= 5
           THEN reconnectStrategy(n).type = "number" /\ reconnectStrategy(n).value = n * 500
           ELSE reconnectStrategy(n).type = "Error"
    /\ client.phase = "waiting" =>
           client.retries - 1 \in 0..5 /\ client.wait = (client.retries - 1) * 500
    /\ client.error # "" =>
           client.retries = 7 /\ client.phase = "closed" /\ ~client.isOpen

\* C25 witness: the strategy has answered an Error and the socket is closed
C25_Witness == client.error = TooManyAttempts /\ client.phase = "closed"

\* a step of a download that goes the 'local' way
LocalDownloadStep ==
    \/ \E fileId \in FileIds \cup {UnknownId} : DownloadStart(fileId)
    \/ \E r \in InFlight : DownloadReaddir(r, "local", <<"", "">>)
    \/ \E r \in InFlight : DownloadOpen(r)
    \/ \E r \in InFlight : DownloadLocalReturn(r)

\* C24: no step of a 'local' download, to success or to failure, changes
\* the store (the FileRecords and the filter snapshot), the uploads
\* directory or this.bloomFilter
C24_LocalDownloadFrame ==
    [][LocalDownloadStep => UNCHANGED <<redis, uploads, bloomFilter>>]_vars

\* C24 witness: a 'local' download has returned a stream while records,
\* blobs and the filter are there to be changed
C24_Witness ==
    /\ Settled("download") /\ done.way = "local" /\ done.outcome.status = "returned"
    /\ Resolvable(done.fileId)
    /\ DOMAIN uploads # {}
    /\ bloomFilter.defined /\ BloomKey \in DOMAIN redis
====
